---------------------------- MODULE Spec2Model ----------------------------
(***************************************************************************)
(* Producer-Consumer over a circular buffer guarded by one pthread mutex   *)
(* and two condition variables (6_Threads/7_ProdCons.c).                   *)
(*                                                                         *)
(* Three threads: main, the Producer (th_b) and the Consumer (th_a).       *)
(* Every statement of Store and Get is one step, so that all               *)
(* interleavings the pthread primitives allow are explored.                *)
(* pthread_cond_wait may return without a signal (spurious wake-up).       *)
(***************************************************************************)
EXTENDS Integers, Sequences, FiniteSets

\* ---- program constants (7_ProdCons.c:35-37) ----
BUFFER_SIZE == 4
LIMIT == -1
COUNT == 11

\* ---- bounds of the tunable configurations explored next to the compiled one
MaxN == 3
MaxCount == 3

\* (buffer capacity, item count): the compiled pair and the small tunings
Configs == ((2..MaxN) \X (0..MaxCount)) \cup {<<BUFFER_SIZE, COUNT>>}

Threads == {"main", "Producer", "Consumer"}

VARIABLES
  size,      \* BUFFER_SIZE of this build
  count,     \* COUNT of this build
  buffer,    \* buffer.buffer[]
  read,      \* buffer.read
  write,     \* buffer.write
  key,       \* buffer.key: the set of threads holding the mutex
  notEmpty,  \* buffer.notEmpty: threads blocked on it, not yet woken
  notFull,   \* buffer.notFull: threads blocked on it, not yet woken
  sync,      \* life cycle of key, notEmpty, notFull: uninit/ready/destroyed
  pc,        \* program counter of each thread
  n,         \* Producer's loop variable
  data,      \* Store's parameter data
  site,      \* which call of Store is running: "loop" (line 114), "last" (117)
  d,         \* Consumer's d
  gdata,     \* Get's local data
  stored,    \* history: values passed to Store, in call order
  got,       \* history: values returned by Get, in return order
  printed,   \* history: values the Consumer printed
  nWritten,  \* history: slot writes done by Store (line 75)
  nRead,     \* history: slot reads done by Get (line 97)
  spurious,  \* history: threads whose latest wake-up had no signal
  signals    \* history: pthread_cond_signal calls, per condition and caller

vars == <<size, count, buffer, read, write, key, notEmpty, notFull, sync, pc,
          n, data, site, d, gdata, stored, got, printed, nWritten, nRead,
          spurious, signals>>

shared == <<buffer, read, write>>
conds == <<notEmpty, notFull>>
plocal == <<n, data, site>>
clocal == <<d, gdata>>
hist == <<stored, got, printed, nWritten, nRead>>
config == <<size, count>>

Goto(t, l) == pc' = [pc EXCEPT ![t] = l]

\* ---- pthread primitives ----

\* mutant: a lock that excludes nobody
CanLock_Always(k) == TRUE

\* pthread_mutex_lock succeeds only when nobody holds the mutex
CanLock(k) == k = {}

\* mutant: a signal that wakes nobody
Signal_Drop(waiters) == {waiters}

\* pthread_cond_signal: the waiter sets that may remain; wakes one waiter if
\* there is any, and is dropped otherwise
Signal(waiters) ==
  IF waiters = {} THEN {{}} ELSE {waiters \ {t} : t \in waiters}

\* ---- predicates of the two wait loops ----

\* mutant: the full test without the modulo
IsFull_NoModulo(w, r, sz) == w + 1 = r

\* line 68: (b->write + 1) % BUFFER_SIZE == b->read
IsFull(w, r, sz) == (w + 1) % sz = r

\* line 89: b->write == b->read
IsEmpty(w, r) == w = r

\* ---- initial state: the zeroed global, before main runs ----
Init ==
  /\ \E c \in Configs : size = c[1] /\ count = c[2]
  /\ buffer = [i \in 0..(size - 1) |-> 0]
  /\ read = 0
  /\ write = 0
  /\ key = {}
  /\ notEmpty = {}
  /\ notFull = {}
  /\ sync = [x \in {"key", "notEmpty", "notFull"} |-> "uninit"]
  /\ pc = [t \in Threads |-> IF t = "main" THEN "init" ELSE "none"]
  /\ n = 0
  /\ data = 0
  /\ site = "loop"
  /\ d = 0
  /\ gdata = 0
  /\ stored = <<>>
  /\ got = <<>>
  /\ printed = <<>>
  /\ nWritten = 0
  /\ nRead = 0
  /\ spurious = {}
  /\ signals = [c \in {"notEmpty", "notFull"} |-> [t \in {"Producer", "Consumer"} |-> 0]]

\* ---- main ----

\* init(&buffer), lines 54-61
MainInit ==
  /\ pc["main"] = "init"
  /\ sync' = [x \in {"key", "notEmpty", "notFull"} |-> "ready"]
  /\ read' = 0
  /\ write' = 0
  /\ Goto("main", "create_a")
  /\ UNCHANGED <<config, buffer, key, conds, plocal, clocal, hist, spurious, signals>>

\* pthread_create(&th_a, NULL, Consumer, NULL), line 150
CreateConsumer ==
  /\ pc["main"] = "create_a"
  /\ pc' = [pc EXCEPT !["main"] = "create_b", !["Consumer"] = "c_loop"]
  /\ UNCHANGED <<config, shared, key, conds, sync, plocal, clocal, hist, spurious, signals>>

\* pthread_create(&th_b, NULL, Producer, NULL), line 151
CreateProducer ==
  /\ pc["main"] = "create_b"
  /\ pc' = [pc EXCEPT !["main"] = "join_a", !["Producer"] = "p_for"]
  /\ n' = 0
  /\ UNCHANGED <<config, shared, key, conds, sync, data, site, clocal, hist, spurious, signals>>

\* mutant: main does not wait for the Consumer
JoinConsumer_NoWait ==
  /\ pc["main"] = "join_a"
  /\ Goto("main", "join_b")
  /\ UNCHANGED <<config, shared, key, conds, sync, plocal, clocal, hist, spurious, signals>>

\* pthread_join(th_a, &returnValue), line 154
JoinConsumer ==
  /\ pc["main"] = "join_a"
  /\ pc["Consumer"] = "done"
  /\ Goto("main", "join_b")
  /\ UNCHANGED <<config, shared, key, conds, sync, plocal, clocal, hist, spurious, signals>>

\* mutant: main does not wait for the Producer
JoinProducer_NoWait ==
  /\ pc["main"] = "join_b"
  /\ Goto("main", "destroy_notEmpty")
  /\ UNCHANGED <<config, shared, key, conds, sync, plocal, clocal, hist, spurious, signals>>

\* pthread_join(th_b, &returnValue), line 155
JoinProducer ==
  /\ pc["main"] = "join_b"
  /\ pc["Producer"] = "done"
  /\ Goto("main", "destroy_notEmpty")
  /\ UNCHANGED <<config, shared, key, conds, sync, plocal, clocal, hist, spurious, signals>>

\* pthread_cond_destroy(&buffer.notEmpty), line 160
DestroyNotEmpty ==
  /\ pc["main"] = "destroy_notEmpty"
  /\ sync' = [sync EXCEPT !["notEmpty"] = "destroyed"]
  /\ Goto("main", "destroy_notFull")
  /\ UNCHANGED <<config, shared, key, conds, plocal, clocal, hist, spurious, signals>>

\* pthread_cond_destroy(&buffer.notFull), line 161
DestroyNotFull ==
  /\ pc["main"] = "destroy_notFull"
  /\ sync' = [sync EXCEPT !["notFull"] = "destroyed"]
  /\ Goto("main", "destroy_key")
  /\ UNCHANGED <<config, shared, key, conds, plocal, clocal, hist, spurious, signals>>

\* pthread_mutex_destroy(&buffer.key); return (0), lines 162-164
DestroyKey ==
  /\ pc["main"] = "destroy_key"
  /\ sync' = [sync EXCEPT !["key"] = "destroyed"]
  /\ Goto("main", "done")
  /\ UNCHANGED <<config, shared, key, conds, plocal, clocal, hist, spurious, signals>>

MainNext ==
  \/ MainInit
  \/ CreateConsumer
  \/ CreateProducer
  \/ JoinConsumer
  \/ JoinProducer
  \/ DestroyNotEmpty
  \/ DestroyNotFull
  \/ DestroyKey

\* ---- Producer (lines 109-119) and Store (lines 64-81) ----

\* mutant: the loop test is off by one, n <= COUNT
ProdFor_OffByOne ==
  /\ pc["Producer"] = "p_for"
  /\ Goto("Producer", IF n <= count THEN "p_call" ELSE "p_last")
  /\ UNCHANGED <<config, shared, key, conds, sync, plocal, clocal, hist, spurious, signals>>

\* for (n = 0; n < COUNT; ...), line 112
ProdFor ==
  /\ pc["Producer"] = "p_for"
  /\ Goto("Producer", IF n < count THEN "p_call" ELSE "p_last")
  /\ UNCHANGED <<config, shared, key, conds, sync, plocal, clocal, hist, spurious, signals>>

\* printf("%d --->\n", n); Store(&buffer, n), lines 113-114
ProdCallStore ==
  /\ pc["Producer"] = "p_call"
  /\ data' = n
  /\ site' = "loop"
  /\ stored' = Append(stored, n)
  /\ Goto("Producer", "s_lock")
  /\ UNCHANGED <<config, shared, key, conds, sync, n, clocal, got, printed,
                 nWritten, nRead, spurious, signals>>

\* mutant: the last Store passes COUNT, the next value, not LIMIT
ProdCallLast_Data ==
  /\ pc["Producer"] = "p_last"
  /\ data' = count
  /\ site' = "last"
  /\ stored' = Append(stored, count)
  /\ Goto("Producer", "s_lock")
  /\ UNCHANGED <<config, shared, key, conds, sync, n, clocal, got, printed,
                 nWritten, nRead, spurious, signals>>

\* Store(&buffer, LIMIT), line 117
ProdCallLast ==
  /\ pc["Producer"] = "p_last"
  /\ data' = LIMIT
  /\ site' = "last"
  /\ stored' = Append(stored, LIMIT)
  /\ Goto("Producer", "s_lock")
  /\ UNCHANGED <<config, shared, key, conds, sync, n, clocal, got, printed,
                 nWritten, nRead, spurious, signals>>

\* pthread_mutex_lock(&b->key), line 66
StoreLock ==
  /\ pc["Producer"] = "s_lock"
  /\ CanLock(key)
  /\ key' = key \cup {"Producer"}
  /\ Goto("Producer", "s_while")
  /\ UNCHANGED <<config, shared, conds, sync, plocal, clocal, hist, spurious, signals>>

\* mutant: Store waits on Get's test, write == read
StoreWhile_WrongTest ==
  /\ pc["Producer"] = "s_while"
  /\ Goto("Producer", IF IsEmpty(write, read) THEN "s_condwait" ELSE "s_write")
  /\ spurious' = spurious \ {"Producer"}
  /\ UNCHANGED <<config, shared, key, conds, sync, plocal, clocal, hist, signals>>

\* while ((b->write + 1) % BUFFER_SIZE == b->read), line 68
StoreWhile ==
  /\ pc["Producer"] = "s_while"
  /\ Goto("Producer", IF IsFull(write, read, size) THEN "s_condwait" ELSE "s_write")
  /\ spurious' = spurious \ {"Producer"}
  /\ UNCHANGED <<config, shared, key, conds, sync, plocal, clocal, hist, signals>>

\* pthread_cond_wait(&b->notFull, &b->key), line 69: release the mutex and
\* block, atomically
StoreWait ==
  /\ pc["Producer"] = "s_condwait"
  /\ key' = key \ {"Producer"}
  /\ notFull' = notFull \cup {"Producer"}
  /\ Goto("Producer", "s_blocked")
  /\ UNCHANGED <<config, shared, notEmpty, sync, plocal, clocal, hist, spurious, signals>>

\* mutant: an if in place of the while, no second test after the wake-up
StoreReacquire_NoRecheck ==
  /\ pc["Producer"] = "s_blocked"
  /\ "Producer" \notin notFull
  /\ CanLock(key)
  /\ key' = key \cup {"Producer"}
  /\ Goto("Producer", "s_write")
  /\ UNCHANGED <<config, shared, conds, sync, plocal, clocal, hist, spurious, signals>>

\* pthread_cond_wait returns, line 69: once woken, take the mutex again and
\* evaluate the loop condition again
StoreReacquire ==
  /\ pc["Producer"] = "s_blocked"
  /\ "Producer" \notin notFull
  /\ CanLock(key)
  /\ key' = key \cup {"Producer"}
  /\ Goto("Producer", "s_while")
  /\ UNCHANGED <<config, shared, conds, sync, plocal, clocal, hist, spurious, signals>>

\* b->buffer[b->write] = data, line 75
StoreWrite ==
  /\ pc["Producer"] = "s_write"
  /\ buffer' = [buffer EXCEPT ![write] = data]
  /\ nWritten' = nWritten + 1
  /\ Goto("Producer", "s_inc")
  /\ UNCHANGED <<config, read, write, key, conds, sync, plocal, clocal, stored,
                 got, printed, nRead, spurious, signals>>

\* b->write++, line 76
StoreInc ==
  /\ pc["Producer"] = "s_inc"
  /\ write' = write + 1
  /\ Goto("Producer", "s_wrap")
  /\ UNCHANGED <<config, buffer, read, key, conds, sync, plocal, clocal, hist, spurious, signals>>

\* if (b->write >= BUFFER_SIZE) b->write = 0, line 77
StoreWrap ==
  /\ pc["Producer"] = "s_wrap"
  /\ write' = IF write >= size THEN 0 ELSE write
  /\ Goto("Producer", "s_signal")
  /\ UNCHANGED <<config, buffer, read, key, conds, sync, plocal, clocal, hist, spurious, signals>>

\* mutant: Store forgets to signal notEmpty
StoreSignal_Lost ==
  /\ pc["Producer"] = "s_signal"
  /\ Goto("Producer", "s_unlock")
  /\ UNCHANGED <<config, shared, key, conds, sync, plocal, clocal, hist, spurious, signals>>

\* mutant: Store signals the condition it waits on, notFull
StoreSignal_WrongCond ==
  /\ pc["Producer"] = "s_signal"
  /\ notFull' \in Signal(notFull)
  /\ signals' = [signals EXCEPT !["notFull"]["Producer"] = @ + 1]
  /\ Goto("Producer", "s_unlock")
  /\ UNCHANGED <<config, shared, key, notEmpty, sync, plocal, clocal, hist, spurious>>

\* pthread_cond_signal(&b->notEmpty), line 79
StoreSignal ==
  /\ pc["Producer"] = "s_signal"
  /\ notEmpty' \in Signal(notEmpty)
  /\ signals' = [signals EXCEPT !["notEmpty"]["Producer"] = @ + 1]
  /\ Goto("Producer", "s_unlock")
  /\ UNCHANGED <<config, shared, key, notFull, sync, plocal, clocal, hist, spurious>>

\* pthread_mutex_unlock(&b->key), line 80
StoreUnlock ==
  /\ pc["Producer"] = "s_unlock"
  /\ key' = key \ {"Producer"}
  /\ Goto("Producer", "s_ret")
  /\ UNCHANGED <<config, shared, conds, sync, plocal, clocal, hist, spurious, signals>>

\* Store returns (line 81) to its call: line 114 continues the loop, after
\* line 117 the Producer returns (line 118)
StoreReturn ==
  /\ pc["Producer"] = "s_ret"
  /\ Goto("Producer", IF site = "loop" THEN "p_next" ELSE "done")
  /\ UNCHANGED <<config, shared, key, conds, sync, plocal, clocal, hist, spurious, signals>>

\* sleep(rand() % BUFFER_SIZE); n++, lines 115 and 112
ProdNext ==
  /\ pc["Producer"] = "p_next"
  /\ n' = n + 1
  /\ Goto("Producer", "p_for")
  /\ UNCHANGED <<config, shared, key, conds, sync, data, site, clocal, hist, spurious, signals>>

ProducerNext ==
  \/ ProdFor
  \/ ProdCallStore
  \/ ProdCallLast
  \/ StoreLock
  \/ StoreWhile
  \/ StoreWait
  \/ StoreReacquire
  \/ StoreWrite
  \/ StoreInc
  \/ StoreWrap
  \/ StoreSignal
  \/ StoreUnlock
  \/ StoreReturn
  \/ ProdNext

\* ---- Consumer (lines 124-134) and Get (lines 84-104) ----

\* while (1) { d = Get(&buffer): the call, lines 127-128
ConsCallGet ==
  /\ pc["Consumer"] = "c_loop"
  /\ Goto("Consumer", "g_lock")
  /\ UNCHANGED <<config, shared, key, conds, sync, plocal, clocal, hist, spurious, signals>>

\* pthread_mutex_lock(&b->key), line 87
GetLock ==
  /\ pc["Consumer"] = "g_lock"
  /\ CanLock(key)
  /\ key' = key \cup {"Consumer"}
  /\ Goto("Consumer", "g_while")
  /\ UNCHANGED <<config, shared, conds, sync, plocal, clocal, hist, spurious, signals>>

\* while (b->write == b->read), line 89
GetWhile ==
  /\ pc["Consumer"] = "g_while"
  /\ Goto("Consumer", IF IsEmpty(write, read) THEN "g_condwait" ELSE "g_read")
  /\ spurious' = spurious \ {"Consumer"}
  /\ UNCHANGED <<config, shared, key, conds, sync, plocal, clocal, hist, signals>>

\* pthread_cond_wait(&b->notEmpty, &b->key), line 90: release the mutex and
\* block, atomically
GetWait ==
  /\ pc["Consumer"] = "g_condwait"
  /\ key' = key \ {"Consumer"}
  /\ notEmpty' = notEmpty \cup {"Consumer"}
  /\ Goto("Consumer", "g_blocked")
  /\ UNCHANGED <<config, shared, notFull, sync, plocal, clocal, hist, spurious, signals>>

\* pthread_cond_wait returns, line 90: once woken, take the mutex again and
\* evaluate the loop condition again
GetReacquire ==
  /\ pc["Consumer"] = "g_blocked"
  /\ "Consumer" \notin notEmpty
  /\ CanLock(key)
  /\ key' = key \cup {"Consumer"}
  /\ Goto("Consumer", "g_while")
  /\ UNCHANGED <<config, shared, conds, sync, plocal, clocal, hist, spurious, signals>>

\* mutant: the slot is read after the index moved on
GetRead_NextSlot ==
  /\ pc["Consumer"] = "g_read"
  /\ gdata' = buffer[(read + 1) % size]
  /\ nRead' = nRead + 1
  /\ Goto("Consumer", "g_inc")
  /\ UNCHANGED <<config, shared, key, conds, sync, plocal, d, stored, got,
                 printed, nWritten, spurious, signals>>

\* data = b->buffer[b->read], line 97
GetRead ==
  /\ pc["Consumer"] = "g_read"
  /\ gdata' = buffer[read]
  /\ nRead' = nRead + 1
  /\ Goto("Consumer", "g_inc")
  /\ UNCHANGED <<config, shared, key, conds, sync, plocal, d, stored, got,
                 printed, nWritten, spurious, signals>>

\* b->read++, line 98
GetInc ==
  /\ pc["Consumer"] = "g_inc"
  /\ read' = read + 1
  /\ Goto("Consumer", "g_wrap")
  /\ UNCHANGED <<config, buffer, write, key, conds, sync, plocal, clocal, hist, spurious, signals>>

\* mutant: Store's line pasted into Get, the wrap resets write
GetWrap_ResetsWrite ==
  /\ pc["Consumer"] = "g_wrap"
  /\ write' = IF read >= size THEN 0 ELSE write
  /\ Goto("Consumer", "g_signal")
  /\ UNCHANGED <<config, buffer, read, key, conds, sync, plocal, clocal, hist, spurious, signals>>

\* mutant: the wrap test is off by one, read > BUFFER_SIZE
GetWrap_OffByOne ==
  /\ pc["Consumer"] = "g_wrap"
  /\ read' = IF read > size THEN 0 ELSE read
  /\ Goto("Consumer", "g_signal")
  /\ UNCHANGED <<config, buffer, write, key, conds, sync, plocal, clocal, hist, spurious, signals>>

\* if (b->read >= BUFFER_SIZE) b->read = 0, line 99
GetWrap ==
  /\ pc["Consumer"] = "g_wrap"
  /\ read' = IF read >= size THEN 0 ELSE read
  /\ Goto("Consumer", "g_signal")
  /\ UNCHANGED <<config, buffer, write, key, conds, sync, plocal, clocal, hist, spurious, signals>>

\* mutant: Get forgets to signal notFull
GetSignal_Lost ==
  /\ pc["Consumer"] = "g_signal"
  /\ Goto("Consumer", "g_unlock")
  /\ UNCHANGED <<config, shared, key, conds, sync, plocal, clocal, hist, spurious, signals>>

\* pthread_cond_signal(&b->notFull), line 101
GetSignal ==
  /\ pc["Consumer"] = "g_signal"
  /\ notFull' \in Signal(notFull)
  /\ signals' = [signals EXCEPT !["notFull"]["Consumer"] = @ + 1]
  /\ Goto("Consumer", "g_unlock")
  /\ UNCHANGED <<config, shared, key, notEmpty, sync, plocal, clocal, hist, spurious>>

\* pthread_mutex_unlock(&b->key), line 102
GetUnlock ==
  /\ pc["Consumer"] = "g_unlock"
  /\ key' = key \ {"Consumer"}
  /\ Goto("Consumer", "g_ret")
  /\ UNCHANGED <<config, shared, conds, sync, plocal, clocal, hist, spurious, signals>>

\* return (data), line 103, assigned to d at line 128
GetReturn ==
  /\ pc["Consumer"] = "g_ret"
  /\ d' = gdata
  /\ got' = Append(got, gdata)
  /\ Goto("Consumer", "c_test")
  /\ UNCHANGED <<config, shared, key, conds, sync, plocal, gdata, stored,
                 printed, nWritten, nRead, spurious, signals>>

\* mutant: the break is missing
ConsTest_NoBreak ==
  /\ pc["Consumer"] = "c_test"
  /\ Goto("Consumer", "c_print")
  /\ UNCHANGED <<config, shared, key, conds, sync, plocal, clocal, hist, spurious, signals>>

\* mutant: if (d = LIMIT), an assignment, which is true for LIMIT = -1
ConsTest_Assign ==
  /\ pc["Consumer"] = "c_test"
  /\ d' = LIMIT
  /\ Goto("Consumer", "done")
  /\ UNCHANGED <<config, shared, key, conds, sync, plocal, gdata, hist, spurious, signals>>

\* if (d == LIMIT) break; ... return (NULL), lines 129 and 133
ConsTest ==
  /\ pc["Consumer"] = "c_test"
  /\ Goto("Consumer", IF d = LIMIT THEN "done" ELSE "c_print")
  /\ UNCHANGED <<config, shared, key, conds, sync, plocal, clocal, hist, spurious, signals>>

\* printf("---> %d\n", d); sleep(rand() % BUFFER_SIZE), lines 130-131
ConsPrint ==
  /\ pc["Consumer"] = "c_print"
  /\ printed' = Append(printed, d)
  /\ Goto("Consumer", "c_loop")
  /\ UNCHANGED <<config, shared, key, conds, sync, plocal, clocal, stored, got,
                 nWritten, nRead, spurious, signals>>

ConsumerNext ==
  \/ ConsCallGet
  \/ GetLock
  \/ GetWhile
  \/ GetWait
  \/ GetReacquire
  \/ GetRead
  \/ GetInc
  \/ GetWrap
  \/ GetSignal
  \/ GetUnlock
  \/ GetReturn
  \/ ConsTest
  \/ ConsPrint

\* ---- spurious wake-ups: pthread_cond_wait may return without a signal ----

\* the Producer's pthread_cond_wait (line 69) is woken with no signal
SpuriousWakeNotFull ==
  /\ "Producer" \in notFull
  /\ notFull' = notFull \ {"Producer"}
  /\ spurious' = spurious \cup {"Producer"}
  /\ UNCHANGED <<config, shared, key, notEmpty, sync, pc, plocal, clocal, hist, signals>>

\* the Consumer's pthread_cond_wait (line 90) is woken with no signal
SpuriousWakeNotEmpty ==
  /\ "Consumer" \in notEmpty
  /\ notEmpty' = notEmpty \ {"Consumer"}
  /\ spurious' = spurious \cup {"Consumer"}
  /\ UNCHANGED <<config, shared, key, notFull, sync, pc, plocal, clocal, hist, signals>>

\* the steps the program takes when every wake-up has a signal
ProgramNext ==
  \/ MainNext
  \/ ProducerNext
  \/ ConsumerNext

Next ==
  \/ ProgramNext
  \/ SpuriousWakeNotFull
  \/ SpuriousWakeNotEmpty

Spec == Init /\ [][Next]_vars

\* Fair scheduling: main and both threads keep running, a thread that asks
\* for the mutex infinitely often while it is free gets it (strong fairness);
\* spurious wake-ups are never owed.
FairSpec ==
  /\ Spec
  /\ WF_vars(MainNext)
  /\ SF_vars(ProducerNext)
  /\ SF_vars(ConsumerNext)

\* ---- failing initialisation (pthread_mutex_init and pthread_cond_init
\* may return an error; init is void and main does not look, lines 54-61, 145)

\* init(&buffer), lines 54-61, with at least one of the three calls failing:
\* the object stays uninitialised, the indices are zeroed and init returns
MainInitFail ==
  /\ pc["main"] = "init"
  /\ \E failed \in (SUBSET {"key", "notEmpty", "notFull"}) \ {{}} :
       sync' = [x \in {"key", "notEmpty", "notFull"} |->
                  IF x \in failed THEN "failed" ELSE "ready"]
  /\ read' = 0
  /\ write' = 0
  /\ Goto("main", "create_a")
  /\ UNCHANGED <<config, buffer, key, conds, plocal, clocal, hist, spurious, signals>>

\* the pthread objects the call at position l works on
UsedAt(l) ==
  CASE l \in {"s_lock", "s_blocked", "s_unlock", "g_lock", "g_blocked",
              "g_unlock", "destroy_key"} -> {"key"}
    [] l = "s_condwait" -> {"notFull", "key"}
    [] l = "g_condwait" -> {"notEmpty", "key"}
    [] l \in {"s_signal", "destroy_notEmpty"} -> {"notEmpty"}
    [] l \in {"g_signal", "destroy_notFull"} -> {"notFull"}
    [] OTHER -> {}

\* a pthread call on an object whose initialisation failed is undefined: the
\* object may happen to work (the steps above) or the thread does anything
\* at all, which the position "undefined" stands for
Undefined(t) ==
  /\ \E x \in UsedAt(pc[t]) : sync[x] = "failed"
  /\ Goto(t, "undefined")
  /\ UNCHANGED <<config, shared, key, conds, sync, plocal, clocal, hist, spurious, signals>>

NextFail ==
  \/ Next
  \/ MainInitFail
  \/ \E t \in Threads : Undefined(t)

\* the program when the initialisation of its pthread objects may fail
FailSpec == Init /\ [][NextFail]_vars

TypeOK ==
  /\ <<size, count>> \in Configs
  /\ DOMAIN buffer = 0..(size - 1)
  /\ read \in 0..size
  /\ write \in 0..size
  /\ key \subseteq Threads
  /\ notEmpty \subseteq Threads
  /\ notFull \subseteq Threads
  /\ n \in 0..count
  /\ nWritten \in 0..(count + 1)
  /\ nRead \in 0..(count + 1)

\* ---- helpers of the properties ----

\* the data values of a history: the sentinel left out
DataOf(s) == SelectSeq(s, LAMBDA v : v # LIMIT)

IsPrefix(a, b) ==
  /\ Len(a) <= Len(b)
  /\ \A i \in 1..Len(a) : a[i] = b[i]

\* the sequence 0, 1, ..., k-1
UpTo(k) == [i \in 1..k |-> i - 1]

\* items in the buffer: slot writes of Store minus slot reads of Get
Occupancy == nWritten - nRead

Terminated == \A t \in Threads : pc[t] = "done"

\* ---- C1 ----
\* C1: FIFO order. In every state the data values Get has returned are a
\* prefix of the data values passed to Store (nothing reordered, duplicated
\* or skipped), and once the Consumer has returned the two sequences are
\* equal (nothing lost).
C1_FifoOrder ==
  /\ IsPrefix(DataOf(got), DataOf(stored))
  /\ pc["Consumer"] = "done" => DataOf(got) = DataOf(stored)

\* reached: the Consumer has returned after more data values than the buffer
\* has slots went through it (the indices wrapped around)
C1_Witness ==
  /\ pc["Consumer"] = "done"
  /\ Len(DataOf(got)) > size
  /\ DataOf(got) = DataOf(stored)

\* ---- C2 ----
\* C2: bounded occupancy. The number of items in the buffer is always
\* between 0 and N-1.
C2_BoundedOccupancy ==
  /\ Occupancy >= 0
  /\ Occupancy <= size - 1

\* reached: the buffer holds N-1 items and the Producer is blocked on notFull
C2_Witness ==
  /\ Occupancy = size - 1
  /\ pc["Producer"] = "s_blocked"
  /\ nRead > 0

\* ---- C3 ----
\* no thread of a non-terminated program is stuck for good: some step of
\* main, the Producer or the Consumer (a spurious wake-up not counted) can
\* be taken
NoStuck == Terminated \/ ENABLED ProgramNext

\* C3: no deadlock. Under fair scheduling the pipeline terminates (the
\* Producer returns, the Consumer returns, main passes both joins and
\* returns), and no reachable non-terminal state leaves every thread without
\* a step.
C3_NoDeadlock == []NoStuck /\ <>Terminated

\* reached: the program with the compiled buffer size has terminated, every
\* value and the sentinel having been returned by Get
C3_Witness ==
  /\ Terminated
  /\ size = BUFFER_SIZE
  /\ Len(got) = count + 1

\* number of times v occurs in the history s
CountOf(s, v) == Len(SelectSeq(s, LAMBDA x : x = v))

\* the positions of a thread inside Store and inside Get
StorePcs == {"s_lock", "s_while", "s_condwait", "s_blocked", "s_write",
             "s_inc", "s_wrap", "s_signal", "s_unlock", "s_ret"}
GetPcs == {"g_lock", "g_while", "g_condwait", "g_blocked", "g_read",
           "g_inc", "g_wrap", "g_signal", "g_unlock", "g_ret"}

\* ---- C4 ----
\* C4: sentinel exactly once. LIMIT is never passed to Store twice and has
\* been passed exactly once when the Producer has returned; LIMIT is only
\* ever the last value Get has returned, once Get has returned it the
\* Consumer is never inside Get again, and the Consumer returns only after it.
C4_SentinelOnce ==
  /\ CountOf(stored, LIMIT) <= 1
  /\ pc["Producer"] = "done" => CountOf(stored, LIMIT) = 1
  /\ \A i \in 1..Len(got) : got[i] = LIMIT => i = Len(got)
  /\ CountOf(got, LIMIT) > 0 => pc["Consumer"] \in {"c_test", "done"}
  /\ pc["Consumer"] = "done" => CountOf(got, LIMIT) = 1

\* reached: both threads have returned, data went through, and the sentinel
\* was stored once and returned last
C4_Witness ==
  /\ pc["Producer"] = "done"
  /\ pc["Consumer"] = "done"
  /\ Len(got) > 1
  /\ got[Len(got)] = LIMIT
  /\ CountOf(stored, LIMIT) = 1

\* ---- C5 ----
\* the mutex has at most one holder; Store and Get hold it at every step
\* that reads or writes read, write or a slot, and from the loop test to the
\* unlock
LockHeld ==
  /\ Cardinality(key) <= 1
  /\ pc["Producer"] \in {"s_while", "s_condwait", "s_write", "s_inc", "s_wrap",
                         "s_signal", "s_unlock"} => "Producer" \in key
  /\ pc["Consumer"] \in {"g_while", "g_condwait", "g_read", "g_inc", "g_wrap",
                         "g_signal", "g_unlock"} => "Consumer" \in key
  /\ "main" \notin key

\* a step that changes read, write or a slot is taken by the holder of the
\* mutex (after init), and a thread gives the mutex up only by blocking in
\* pthread_cond_wait or by the unlock that ends Store or Get
LockStep ==
  /\ (pc["main"] # "init" /\ write' # write) => key = {"Producer"}
  /\ (pc["main"] # "init" /\ buffer' # buffer) => key = {"Producer"}
  /\ (pc["main"] # "init" /\ read' # read) => key = {"Consumer"}
  /\ ("Producer" \in key /\ "Producer" \notin key') =>
        \/ pc["Producer"] = "s_condwait" /\ pc'["Producer"] = "s_blocked"
        \/ pc["Producer"] = "s_unlock" /\ pc'["Producer"] = "s_ret"
  /\ ("Consumer" \in key /\ "Consumer" \notin key') =>
        \/ pc["Consumer"] = "g_condwait" /\ pc'["Consumer"] = "g_blocked"
        \/ pc["Consumer"] = "g_unlock" /\ pc'["Consumer"] = "g_ret"

\* C5: mutual exclusion and atomicity of Store and Get. At most one thread
\* holds the mutex; every access of Store and Get to read, write and the
\* slots is made by the holder; the mutex is held from the loop test through
\* the slot access, the index update and the signal, and is given up in
\* between only by blocking in pthread_cond_wait.
C5_MutualExclusion == []LockHeld /\ [][LockStep]_vars

\* reached: the Producer writes a slot holding the mutex while the Consumer
\* is at pthread_mutex_lock, kept out
C5_Witness ==
  /\ pc["Producer"] = "s_write"
  /\ key = {"Producer"}
  /\ pc["Consumer"] = "g_lock"

\* ---- C6 ----
\* C6: teardown only after join. Whenever main is at or past a destroy call,
\* or any of the mutex and the two condition variables is destroyed, both
\* the Producer and the Consumer have returned.
C6_TeardownAfterJoin ==
  (\/ pc["main"] \in {"destroy_notEmpty", "destroy_notFull", "destroy_key", "done"}
   \/ \E x \in DOMAIN sync : sync[x] = "destroyed")
  => (pc["Producer"] = "done" /\ pc["Consumer"] = "done")

\* reached: all three resources are destroyed, after both threads returned
C6_Witness ==
  /\ \A x \in DOMAIN sync : sync[x] = "destroyed"
  /\ pc["Producer"] = "done"
  /\ pc["Consumer"] = "done"
  /\ Len(got) > 1

\* ---- C7 ----
\* C7: full/empty index invariant. Before any thread runs read and write are
\* 0; whenever the mutex is free, read and write are in [0, N), the buffer
\* holds no item iff read = write, holds N-1 items iff
\* (write + 1) mod N = read, and holds (write - read) mod N items.
C7_IndexInvariant ==
  /\ (pc["Producer"] = "none" /\ pc["Consumer"] = "none") => (read = 0 /\ write = 0)
  /\ key = {} =>
       /\ read \in 0..(size - 1)
       /\ write \in 0..(size - 1)
       /\ (Occupancy = 0) <=> (read = write)
       /\ (Occupancy = size - 1) <=> ((write + 1) % size = read)
       /\ Occupancy = (write - read) % size

\* reached: the mutex is free and the buffer of the compiled size is full
\* with write wrapped around behind read
C7_Witness ==
  /\ key = {}
  /\ size = BUFFER_SIZE
  /\ write < read
  /\ Occupancy = size - 1
  /\ (write + 1) % size = read

\* ---- C8 ----
\* C8: never written when full, never read when empty, spurious wake-ups
\* included. Whenever Store is about to write its slot the buffer is not
\* full, and whenever Get is about to read its slot the buffer is not empty.
C8_NoWriteFullNoReadEmpty ==
  /\ pc["Producer"] = "s_write" =>
       /\ (write + 1) % size # read
       /\ Occupancy < size - 1
  /\ pc["Consumer"] = "g_read" =>
       /\ write # read
       /\ Occupancy > 0

\* reached: the Producer was woken from pthread_cond_wait without a signal,
\* holds the mutex again and is back at the loop test with the buffer still
\* full
C8_Witness ==
  /\ pc["Producer"] = "s_while"
  /\ "Producer" \in spurious
  /\ "Producer" \in key
  /\ (write + 1) % size = read
  /\ Occupancy = size - 1

\* ---- C9 ----
\* C9: the Consumer processes exactly the data. It never prints the
\* sentinel, what it has printed is always a prefix of 0, 1, ..., COUNT-1,
\* and it returns only after Get returned the sentinel, having printed
\* exactly 0, 1, ..., COUNT-1.
C9_ConsumerProcessesData ==
  /\ \A i \in 1..Len(printed) : printed[i] # LIMIT
  /\ IsPrefix(printed, UpTo(count))
  /\ pc["Consumer"] = "done" =>
       /\ Len(got) > 0
       /\ got[Len(got)] = LIMIT
       /\ d = LIMIT
       /\ printed = UpTo(count)

\* reached: the compiled program's Consumer has returned having printed
\* 0..10
C9_Witness ==
  /\ pc["Consumer"] = "done"
  /\ size = BUFFER_SIZE
  /\ count = COUNT
  /\ printed = <<0, 1, 2, 3, 4, 5, 6, 7, 8, 9, 10>>

\* ---- C10 ----
\* what the Producer has to pass to Store: 0, 1, ..., COUNT-1, then LIMIT
PushPlan == UpTo(count) \o <<LIMIT>>

\* the sequence passed to Store is a prefix of the plan and the whole plan
\* once the Producer has returned; once LIMIT is passed the Producer is in
\* that last Store or has returned
PushedSoFar ==
  /\ IsPrefix(stored, PushPlan)
  /\ pc["Producer"] = "done" => stored = PushPlan
  /\ CountOf(stored, LIMIT) > 0 =>
       /\ site = "last"
       /\ pc["Producer"] \in StorePcs \cup {"done"}

\* once the Producer has returned it stays there: no further Store, slot
\* write, index update, lock or wait of its own
ProducerStaysDone ==
  pc["Producer"] = "done" =>
    /\ pc'["Producer"] = "done"
    /\ stored' = stored
    /\ nWritten' = nWritten
    /\ write' = write
    /\ "Producer" \notin key'
    /\ "Producer" \notin notFull'

\* C10: Producer push sequence. The values passed to Store are exactly
\* 0, 1, ..., COUNT-1 followed by the sentinel; nothing is pushed after the
\* sentinel, and after the sentinel's Store returns the Producer performs no
\* further buffer operation.
C10_ProducerPushSequence == []PushedSoFar /\ [][ProducerStaysDone]_vars

\* reached: the Producer has returned while the Consumer still has items to
\* take, so steps are taken after the sentinel's Store returned
C10_Witness ==
  /\ pc["Producer"] = "done"
  /\ stored = PushPlan
  /\ count > 0
  /\ nRead < nWritten


\* ---- C11 ----
\* C11: every blocking operation eventually succeeds. Under fair scheduling
\* a Store that has started returns and a Get that has started returns, and
\* a thread blocked on notFull or on notEmpty gets woken and its call
\* returns.
C11_BlockingOpsSucceed ==
  /\ (pc["Producer"] \in StorePcs) ~> (pc["Producer"] \in {"p_next", "done"})
  /\ (pc["Consumer"] \in GetPcs) ~> (pc["Consumer"] = "c_test")
  /\ ("Producer" \in notFull) ~> (pc["Producer"] = "s_ret")
  /\ ("Consumer" \in notEmpty) ~> (pc["Consumer"] = "g_ret")

\* reached: the Producer, blocked on notFull with the buffer full, has been
\* woken by the Consumer's signal (not spuriously) and can go on
C11_Witness ==
  /\ pc["Producer"] = "s_blocked"
  /\ "Producer" \notin notFull
  /\ "Producer" \notin spurious
  /\ signals["notFull"]["Consumer"] > 0
  /\ (write + 1) % size # read


\* ---- C12 ----
\* a thread waits on a condition only inside pthread_cond_wait of its own
\* function, and enters that wait only with the buffer full (Store) or empty
\* (Get): the test is made holding the mutex, which the wait releases
WaitsOnlyWhenFullOrEmpty ==
  /\ "Producer" \in notFull => pc["Producer"] = "s_blocked"
  /\ "Consumer" \in notEmpty => pc["Consumer"] = "g_blocked"
  /\ pc["Producer"] = "s_condwait" =>
       /\ (write + 1) % size = read
       /\ Occupancy = size - 1
  /\ pc["Consumer"] = "g_condwait" =>
       /\ write = read
       /\ Occupancy = 0

\* the Producer, resp. the Consumer, is running and has no step to take
ProducerBlocked == pc["Producer"] \notin {"none", "done"} /\ ~ ENABLED ProducerNext
ConsumerBlocked == pc["Consumer"] \notin {"none", "done"} /\ ~ ENABLED ConsumerNext

\* C12 as stated: suspension only on full/empty, and no other operation of
\* either task blocks: a task without a step is inside pthread_cond_wait.
C12_Original ==
  /\ WaitsOnlyWhenFullOrEmpty
  /\ ProducerBlocked => pc["Producer"] = "s_blocked"
  /\ ConsumerBlocked => pc["Consumer"] = "g_blocked"

\* C12 (amended): the Producer waits on a condition only inside Store and
\* only when the buffer is full at the moment it starts waiting, the
\* Consumer only inside Get and only when the buffer is empty at that
\* moment; besides that wait a task blocks only at pthread_mutex_lock, and
\* only while the other task holds the mutex.
C12_SuspensionPoints ==
  /\ WaitsOnlyWhenFullOrEmpty
  /\ ProducerBlocked =>
       \/ pc["Producer"] = "s_blocked" /\ ("Producer" \in notFull \/ key = {"Consumer"})
       \/ pc["Producer"] = "s_lock" /\ key = {"Consumer"}
  /\ ConsumerBlocked =>
       \/ pc["Consumer"] = "g_blocked" /\ ("Consumer" \in notEmpty \/ key = {"Producer"})
       \/ pc["Consumer"] = "g_lock" /\ key = {"Producer"}

\* reached: the Producer, holding the mutex, is about to wait on a full
\* buffer while the Consumer is blocked at pthread_mutex_lock
C12_Witness ==
  /\ pc["Producer"] = "s_condwait"
  /\ (write + 1) % size = read
  /\ pc["Consumer"] = "g_lock"
  /\ ConsumerBlocked


\* ---- C13 ----
\* one signal per Store, all on notEmpty; one signal per Get, all on
\* notFull; the Producer waits only on notFull, the Consumer only on notEmpty
SignalDirections ==
  /\ signals["notFull"]["Producer"] = 0
  /\ signals["notEmpty"]["Consumer"] = 0
  /\ signals["notEmpty"]["Producer"] =
       IF pc["Producer"] \in StorePcs \ {"s_unlock", "s_ret"}
       THEN Len(stored) - 1 ELSE Len(stored)
  /\ signals["notFull"]["Consumer"] =
       IF pc["Consumer"] \in {"g_unlock", "g_ret"}
       THEN Len(got) + 1 ELSE Len(got)
  /\ notFull \subseteq {"Producer"}
  /\ notEmpty \subseteq {"Consumer"}

\* a step that signals takes at most one waiter off the signalled condition
\* and none off the other
WakesAtMostOne ==
  /\ signals'["notEmpty"] # signals["notEmpty"] =>
       /\ Cardinality(notEmpty \ notEmpty') <= 1
       /\ notFull' = notFull
  /\ signals'["notFull"] # signals["notFull"] =>
       /\ Cardinality(notFull \ notFull') <= 1
       /\ notEmpty' = notEmpty

OneSlot ==
  size = 2 =>
    /\ Occupancy \in {0, 1}
    /\ IsPrefix(DataOf(got), DataOf(stored))
    /\ pc["Consumer"] = "done" => DataOf(got) = DataOf(stored)

\* with N = 2 a slot is written only when every item written before has
\* been read, and read only when exactly one item is unread
Alternates ==
  size = 2 =>
    /\ nWritten' = nWritten + 1 => nRead = nWritten
    /\ nRead' = nRead + 1 => nWritten = nRead + 1

\* C14: minimum capacity N = 2. The buffer never holds more than one item,
\* the (k+1)-th Store writes its slot only after the k-th item has been read
\* (slot writes and slot reads strictly alternate), FIFO order holds and,
\* under fair scheduling, the pipeline terminates.
C14_MinimumCapacity ==
  /\ []OneSlot
  /\ [][Alternates]_vars
  /\ (size = 2) => <>Terminated

\* reached: with N = 2 the pipeline has terminated after at least two data
\* values and the sentinel went through the single usable slot
C14_Witness ==
  /\ size = 2
  /\ Terminated
  /\ Len(got) >= 3
  /\ nWritten = nRead


\* ---- C15 ----
\* with COUNT = 0: only the sentinel is ever passed to Store, Get returns at
\* most once and the Consumer is never inside Get after that, nothing is
\* printed, one slot is written and read, and each thread returns having
\* stored, resp. got, exactly the sentinel
OnlySentinel ==
  count = 0 =>
    /\ IsPrefix(stored, <<LIMIT>>)
    /\ IsPrefix(got, <<LIMIT>>)
    /\ printed = <<>>
    /\ nWritten <= 1
    /\ nRead <= 1
    /\ got # <<>> => pc["Consumer"] \in {"c_test", "done"}
    /\ pc["Producer"] = "done" => (stored = <<LIMIT>> /\ nWritten = 1)
    /\ pc["Consumer"] = "done" => (got = <<LIMIT>> /\ nRead = 1)

\* C15: COUNT = 0. The Producer performs exactly one Store, of the sentinel;
\* the Consumer performs exactly one Get, receives the sentinel and returns
\* having processed no data value; under fair scheduling the pipeline
\* terminates.
C15_CountZero ==
  /\ []OnlySentinel
  /\ (count = 0) => <>Terminated

\* reached: with COUNT = 0 the Consumer ran first and is blocked on notEmpty
\* while the Producer is inside its only Store, of the sentinel
C15_Witness ==
  /\ count = 0
  /\ "Consumer" \in notEmpty
  /\ pc["Producer"] = "s_write"
  /\ data = LIMIT


\* ---- C16 ----
\* C16: clean teardown. Whenever main is at one of its three destroy calls,
\* and after them, nobody waits on notEmpty or notFull or sits inside
\* pthread_cond_wait, nobody holds the mutex, and the object about to be
\* destroyed is initialised and not yet destroyed.
C16_CleanTeardown ==
  /\ pc["main"] \in {"destroy_notEmpty", "destroy_notFull", "destroy_key", "done"} =>
       /\ notEmpty = {}
       /\ notFull = {}
       /\ key = {}
       /\ pc["Producer"] \notin StorePcs
       /\ pc["Consumer"] \notin GetPcs
  /\ pc["main"] = "destroy_notEmpty" => sync["notEmpty"] = "ready"
  /\ pc["main"] = "destroy_notFull" => sync["notFull"] = "ready"
  /\ pc["main"] = "destroy_key" => sync["key"] = "ready"

\* reached: main has destroyed both condition variables and is about to
\* destroy the mutex, after more Gets than the buffer has slots
C16_Witness ==
  /\ pc["main"] = "destroy_key"
  /\ sync["notEmpty"] = "destroyed"
  /\ sync["notFull"] = "destroyed"
  /\ key = {}
  /\ signals["notFull"]["Consumer"] > size


\* ---- C17 ----
\* C17: initialisation failure is fatal. If initialising the mutex or either
\* condition variable has failed, neither the Producer nor the Consumer
\* thread is ever created.
C17_InitFailureFatal ==
  (\E x \in DOMAIN sync : sync[x] = "failed") =>
    (pc["Producer"] = "none" /\ pc["Consumer"] = "none")


\* ---- C18 ----
\* C18: the two tasks are never both suspended. In no reachable state is the
\* Producer blocked on notFull, unsignalled, while the Consumer is blocked
\* on notEmpty, unsignalled.
C18_NeverBothSuspended ==
  ~ ("Producer" \in notFull /\ "Consumer" \in notEmpty)

\* reached: the Producer is blocked on notFull, unsignalled, and the
\* Consumer is inside pthread_cond_wait too, but already signalled
C18_Witness ==
  /\ "Producer" \in notFull
  /\ pc["Consumer"] = "g_blocked"
  /\ "Consumer" \notin notEmpty
  /\ "Consumer" \notin spurious

\* ---- C19 ----
\* with the mutex free, an unsignalled waiter on notEmpty means an empty
\* buffer and an unsignalled waiter on notFull a full one
NoLostWakeup ==
  key = {} =>
    /\ "Consumer" \in notEmpty => (write = read /\ Occupancy = 0)
    /\ "Producer" \in notFull => ((write + 1) % size = read /\ Occupancy = size - 1)

\* a signal issued while nobody waits on its condition changes nothing: no
\* waiter set, no index, no slot, no holder of the mutex
DroppedSignal ==
  /\ (signals'["notEmpty"] # signals["notEmpty"] /\ notEmpty = {}) =>
       UNCHANGED <<shared, key, conds>>
  /\ (signals'["notFull"] # signals["notFull"] /\ notFull = {}) =>
       UNCHANGED <<shared, key, conds>>

\* C19: no lost wake-up. Whenever the mutex is free, a Consumer suspended on
\* notEmpty and not signalled means the buffer is empty, and a Producer
\* suspended on notFull and not signalled means it is full; a signal issued
\* while nobody waits is dropped and changes nothing.
C19_NoLostWakeup == []NoLostWakeup /\ [][DroppedSignal]_vars

\* reached: the mutex is free, the Producer is blocked on notFull with the
\* buffer full, and the Consumer is about to lock for another Get
C19_Witness ==
  /\ key = {}
  /\ "Producer" \in notFull
  /\ (write + 1) % size = read
  /\ pc["Consumer"] = "g_lock"
  /\ nRead > 0


\* ---- C20 ----
\* write is the number of slot writes modulo N and read the number of slot
\* reads modulo N, except between a slot access and the end of the index
\* update that follows it; the slot at the old write index holds Store's data
IndexFollowsCount ==
  /\ pc["Producer"] \notin {"s_inc", "s_wrap"} => write = nWritten % size
  /\ pc["Producer"] = "s_inc" =>
       /\ write = (nWritten - 1) % size
       /\ buffer[write] = data
  /\ pc["Producer"] = "s_wrap" =>
       /\ write = ((nWritten - 1) % size) + 1
       /\ buffer[write - 1] = data
  /\ pc["Producer"] \in {"s_signal", "s_unlock"} =>
       buffer[(write - 1) % size] = data
  /\ pc["Consumer"] \notin {"g_inc", "g_wrap"} => read = nRead % size
  /\ pc["Consumer"] = "g_inc" =>
       /\ read = (nRead - 1) % size
       /\ gdata = buffer[read]
  /\ pc["Consumer"] = "g_wrap" => read = ((nRead - 1) % size) + 1

\* a step of the Producer leaves read alone and changes no slot but, at line
\* 75, the one at write; a step of the Consumer leaves write and every slot
\* alone
Frames ==
  /\ pc'["Producer"] # pc["Producer"] =>
       /\ read' = read
       /\ \A i \in 0..(size - 1) :
            (pc["Producer"] # "s_write" \/ i # write) => buffer'[i] = buffer[i]
       /\ pc["Producer"] = "s_write" => (buffer'[write] = data /\ write' = write)
       /\ pc["Producer"] \notin {"s_inc", "s_wrap"} => write' = write
  /\ pc'["Consumer"] # pc["Consumer"] =>
       /\ write' = write
       /\ buffer' = buffer
       /\ pc["Consumer"] \notin {"g_inc", "g_wrap"} => read' = read

\* C20: frame conditions of Store and Get. A completed Store has changed
\* only the slot at the old write index and advanced write by one modulo N,
\* leaving read and every other slot unchanged; a completed Get has advanced
\* read by one modulo N and left write and every slot unchanged.
C20_FrameConditions == []IndexFollowsCount /\ [][Frames]_vars

\* reached: a Store has written the last slot and wrapped write to 0 while
\* the Consumer's read index is elsewhere
C20_Witness ==
  /\ pc["Producer"] = "s_signal"
  /\ write = 0
  /\ nWritten > size
  /\ buffer[size - 1] = data
  /\ read > 0

=============================================================================
